---- MODULE Spec2Model ----
(***************************************************************************)
(* Model of the BigQuery SQL tool of labsight                               *)
(* (service/app/agent/tools/bigquery_sql.py): the validator validate_sql,    *)
(* its function blocklist, and the tool query_infrastructure_metrics that   *)
(* validates a candidate SQL text, issues it to the warehouse and caps the  *)
(* response payload.                                                        *)
(*                                                                         *)
(* Strings are sequences of one-character strings, so that lower(),         *)
(* strip(), replace() and the substring test are computed as Python         *)
(* computes them.  The parser (sqlglot) is a library outside the            *)
(* repository: a SQL text is represented by what parsing it yields, a       *)
(* parse error or a list of statements (None for an empty statement), and   *)
(* a statement by its root type and the nodes statement.walk() visits.      *)
(***************************************************************************)
EXTENDS Integers, Sequences, FiniteSets, TLC

(***************************************************************************)
(* Python values                                                           *)
(***************************************************************************)
\* Optional values: None is the empty tuple, a present value x is <<x>>.
None == <<>>
Some(x) == <<x>>
Range(s) == { s[i] : i \in DOMAIN s }

UpperLetters ==
    <<"A", "B", "C", "D", "E", "F", "G", "H", "I", "J", "K", "L", "M",
      "N", "O", "P", "Q", "R", "S", "T", "U", "V", "W", "X", "Y", "Z">>
LowerLetters ==
    <<"a", "b", "c", "d", "e", "f", "g", "h", "i", "j", "k", "l", "m",
      "n", "o", "p", "q", "r", "s", "t", "u", "v", "w", "x", "y", "z">>
Whitespace == {" ", "\t", "\n"}

ToLower == [c \in Range(UpperLetters) |->
              LowerLetters[CHOOSE i \in 1..26 : UpperLetters[i] = c]]
ToUpper == [c \in Range(LowerLetters) |->
              UpperLetters[CHOOSE i \in 1..26 : LowerLetters[i] = c]]
LowerChar(c) == IF c \in DOMAIN ToLower THEN ToLower[c] ELSE c
UpperChar(c) == IF c \in DOMAIN ToUpper THEN ToUpper[c] ELSE c

\* str.lower(), str.upper()
str_lower(s) == [i \in 1..Len(s) |-> LowerChar(s[i])]
str_upper(s) == [i \in 1..Len(s) |-> UpperChar(s[i])]

\* str.strip(): drops leading and trailing whitespace
RECURSIVE str_lstrip(_)
str_lstrip(s) ==
    IF s # <<>> /\ s[1] \in Whitespace THEN str_lstrip(Tail(s)) ELSE s
RECURSIVE str_rstrip(_)
str_rstrip(s) ==
    IF s # <<>> /\ s[Len(s)] \in Whitespace
    THEN str_rstrip(SubSeq(s, 1, Len(s) - 1)) ELSE s
str_strip(s) == str_rstrip(str_lstrip(s))

\* str.replace(c, ""): drops every occurrence of the character c
str_remove(s, c) == SelectSeq(s, LAMBDA x : x # c)

\* sub in s
str_contains(s, sub) ==
    \E i \in 0..(Len(s) - Len(sub)) : SubSeq(s, i + 1, i + Len(sub)) = sub

\* str(n) for the statement counts the model reaches (one digit)
str_of_int(n) == <<<<"0", "1", "2", "3", "4", "5", "6", "7", "8", "9">>[n + 1]>>

\* name.split(".", 1)[1]: what follows the first dot (for a name holding one)
str_after_first_dot(s) ==
    LET dots == {i \in 1..Len(s) : s[i] = "."}
        first == CHOOSE i \in dots : \A j \in dots : i <= j
    IN  SubSeq(s, first + 1, Len(s))

(***************************************************************************)
(* The function blocklist and the name normalizer                          *)
(***************************************************************************)
_MAX_RESULT_BYTES == 50000
_DEFAULT_LIMIT == 1000

s_external_query ==
    <<"e", "x", "t", "e", "r", "n", "a", "l", "_", "q", "u", "e", "r", "y">>
s_read_gbq ==
    <<"r", "e", "a", "d", "_", "g", "b", "q">>
s_ml_predict ==
    <<"m", "l", ".", "p", "r", "e", "d", "i", "c", "t">>
s_ml_evaluate ==
    <<"m", "l", ".", "e", "v", "a", "l", "u", "a", "t", "e">>
s_ml_generate_text ==
    <<"m", "l", ".", "g", "e", "n", "e", "r", "a", "t", "e", "_", "t", "e", "x", "t">>
s_ml_forecast ==
    <<"m", "l", ".", "f", "o", "r", "e", "c", "a", "s", "t">>
s_ml_recommend ==
    <<"m", "l", ".", "r", "e", "c", "o", "m", "m", "e", "n", "d">>
s_ml_detect_anomalies ==
    <<"m", "l", ".", "d", "e", "t", "e", "c", "t", "_", "a", "n", "o", "m", "a", "l", "i", "e", "s">>
s_information_schema ==
    <<"i", "n", "f", "o", "r", "m", "a", "t", "i", "o", "n", "_", "s", "c", "h", "e", "m", "a">>

_BLOCKED_FUNCTIONS ==
    { s_external_query, s_read_gbq, s_ml_predict, s_ml_evaluate,
      s_ml_generate_text, s_ml_forecast, s_ml_recommend, s_ml_detect_anomalies }

\* Mutant: the normalizer forgets lower().
NormalizeKeepingCase(name) ==
    str_remove(str_remove(str_remove(str_strip(name), "."), "_"), " ")

_normalize_function_token(name) ==
    str_remove(str_remove(str_remove(str_lower(str_strip(name)), "."), "_"), " ")

_BLOCKED_FUNCTIONS_CANONICAL ==
    { _normalize_function_token(name) : name \in _BLOCKED_FUNCTIONS }

\* The dict's keys, and dict.get(key) for a key it holds.
DottedBlockedFunctions == { name \in _BLOCKED_FUNCTIONS : "." \in Range(name) }
BasenameKeys ==
    { _normalize_function_token(str_after_first_dot(name)) :
        name \in DottedBlockedFunctions }
_BLOCKED_FUNCTION_BASENAME_DISPLAY ==
    [ key \in BasenameKeys |->
        str_upper(CHOOSE name \in DottedBlockedFunctions :
                    _normalize_function_token(str_after_first_dot(name)) = key) ]

(***************************************************************************)
(* Syntax trees, as validate_sql reads them                                *)
(*                                                                         *)
(* A statement is [type, nodes]: the class name of its root and the        *)
(* descendants in the order statement.walk() yields them.  Every node has  *)
(* a type (its class name) and a scope: 0 when it belongs to the           *)
(* statement's own query block, k > 0 when it lies inside nested query     *)
(* block k (a subquery or a CTE body).  A Table node has catalog, db and   *)
(* name ("" when absent), a CTE node its alias, a Limit node its value, a  *)
(* function node the literal call name (Anonymous calls), the dialect's    *)
(* name of the node type (sql_name) and the node's class name as a string  *)
(* (class_name).  The type names of statements and mutation nodes are      *)
(* kept as atoms.                                                          *)
(***************************************************************************)
\* The classes of the function nodes the model draws (subclasses of exp.Func)
FuncTypes == {"Anonymous", "Predict", "Count"}

MutationTypes ==
    {"Insert", "Update", "Delete", "Drop", "Create", "Alter", "Command"}

\* statement.walk(): the root, then its descendants
walk(statement) ==
    <<[type |-> statement.type, scope |-> 0]>> \o statement.nodes

\* statement.find_all(T): the nodes of the walk that are instances of T
find_all(statement, types) ==
    SelectSeq(walk(statement), LAMBDA n : n.type \in types)

\* The first element of a non-empty set of indices
First(indices) == CHOOSE i \in indices : \A j \in indices : i <= j

\* Mutant: the label lookup consults the canonical blocklist only for
\* anonymous calls and never the basename table.
LabelAnonymousOnly(func) ==
    IF /\ func.type = "Anonymous"
       /\ _normalize_function_token(func.name) \in _BLOCKED_FUNCTIONS_CANONICAL
    THEN Some(str_upper(func.name))
    ELSE None

\* Mutant: every anonymous call is taken for a blocked one.
LabelEveryAnonymous(func) ==
    IF func.type = "Anonymous" /\ func.name # <<>>
    THEN Some(str_upper(func.name))
    ELSE None

\* The module-level objects of bigquery_sql.py that validate_sql reads
Module ==
    [ blocked |-> _BLOCKED_FUNCTIONS,
      canonical |-> _BLOCKED_FUNCTIONS_CANONICAL,
      basename_display |-> _BLOCKED_FUNCTION_BASENAME_DISPLAY ]

\* The label lookup of lines 77-98, reading the module-level tables mod
LabelIn(func, mod) ==
    LET candidates ==
            (IF func.type = "Anonymous" /\ func.name # <<>>
             THEN <<func.name>> ELSE <<>>)
            \o (IF func.sql_name # <<>> THEN <<func.sql_name>> ELSE <<>>)
            \o <<func.class_name>>
        normalized(i) == _normalize_function_token(candidates[i])
        hits == { i \in 1..Len(candidates) :
                    \/ normalized(i) \in mod.canonical
                    \/ normalized(i) \in DOMAIN mod.basename_display }
    IN  IF hits = {} THEN None
        ELSE LET i == First(hits)
             IN  IF normalized(i) \in mod.canonical
                 THEN Some(str_upper(candidates[i]))
                 ELSE Some(mod.basename_display[normalized(i)])

\* _blocked_function_label(func): Some(label) when blocked, None otherwise
_blocked_function_label(func) == LabelIn(func, Module)

(***************************************************************************)
(* validate_sql                                                            *)
(***************************************************************************)
\* A SQL text: whether sqlglot parses it, the statements it yields (None
\* for an empty statement, Some(statement) otherwise), and otherwise the
\* exception sqlglot.parse raises: the parser's ParseError, or the
\* tokenizer's TokenError (an unterminated string, identifier or comment),
\* which is no ParseError.
Text(statements) == [parses |-> TRUE, error |-> "", statements |-> statements]
Unparseable == [parses |-> FALSE, error |-> "ParseError", statements |-> <<>>]
Untokenizable == [parses |-> FALSE, error |-> "TokenError", statements |-> <<>>]

\* statement.sql(dialect="bigquery"): the text of one statement
sql_of(statement) == Text(<<Some(statement)>>)

\* The outcomes of validate_sql: the cleaned SQL, or the SQLValidationError
\* raised, identified by its message template and the value formatted in.
Accepted(text) ==
    [ok |-> TRUE, exception |-> "", sql |-> text, msg |-> "", arg |-> <<>>]
Rejected(msg, arg) ==
    [ok |-> FALSE, exception |-> "SQLValidationError", sql |-> Unparseable,
     msg |-> msg, arg |-> arg]

\* An exception validate_sql does not catch leaves it as it is
Raised(exception) ==
    [ok |-> FALSE, exception |-> exception, sql |-> Unparseable,
     msg |-> exception, arg |-> <<>>]

\* The outcome of a check that raised nothing
Pass == [ok |-> TRUE, exception |-> "", sql |-> Unparseable, msg |-> "", arg |-> <<>>]

\* Mutant: once a CTE is bound, every reference is taken for a CTE reference.
CteReferenceWheneverCteBound(table, cte_aliases) == cte_aliases # {}
\* Mutant: no reference is skipped; CTE references count as tables.
CteReferenceNever(table, cte_aliases) == FALSE
\* Line 228: the reference is skipped as a CTE alias
IsCteReference(table, cte_aliases) ==
    /\ str_lower(table.name) \in cte_aliases
    /\ str_lower(table.catalog) = <<>>
    /\ str_lower(table.db) = <<>>

\* Mutant: the marker is searched without lower-casing.
MetadataCaseSensitive(table) ==
    \/ str_contains(table.name, s_information_schema)
    \/ str_contains(table.db, s_information_schema)

\* Line 232: the reference names INFORMATION_SCHEMA
IsMetadataReference(table) ==
    \/ str_contains(str_lower(table.name), s_information_schema)
    \/ str_contains(str_lower(table.db), s_information_schema)

\* Mutant: qualifiers are compared without lower-casing.
QualifierDiffersCaseSensitive(qualifier, allowed) ==
    qualifier # <<>> /\ qualifier # allowed
\* Lines 238 and 243: a qualifier is present and is not the allowed one
QualifierDiffers(qualifier, allowed) ==
    str_lower(qualifier) # <<>> /\ str_lower(qualifier) # str_lower(allowed)

\* Mutant: the dataset is checked before the project.
CheckTableDatasetFirst(table, allowed_project, allowed_dataset, is_strict, allowed_tables_lower) ==
    IF IsMetadataReference(table)
    THEN Rejected("INFORMATION_SCHEMA queries are not allowed", <<>>)
    ELSE IF QualifierDiffers(table.db, allowed_dataset)
    THEN Rejected("Query references dataset", table.db)
    ELSE IF QualifierDiffers(table.catalog, allowed_project)
    THEN Rejected("Query references project", table.catalog)
    ELSE IF is_strict /\ (str_lower(table.catalog) = <<>> \/ str_lower(table.db) = <<>>)
    THEN Rejected("Table must be fully qualified", table.name)
    ELSE IF is_strict /\ str_lower(table.name) \notin allowed_tables_lower
    THEN Rejected("Table is not in the allowed table list", table.name)
    ELSE Pass
\* Mutant: the INFORMATION_SCHEMA check comes after the other checks.
CheckTableMetadataLast(table, allowed_project, allowed_dataset, is_strict, allowed_tables_lower) ==
    IF QualifierDiffers(table.catalog, allowed_project)
    THEN Rejected("Query references project", table.catalog)
    ELSE IF QualifierDiffers(table.db, allowed_dataset)
    THEN Rejected("Query references dataset", table.db)
    ELSE IF is_strict /\ (str_lower(table.catalog) = <<>> \/ str_lower(table.db) = <<>>)
    THEN Rejected("Table must be fully qualified", table.name)
    ELSE IF is_strict /\ str_lower(table.name) \notin allowed_tables_lower
    THEN Rejected("Table is not in the allowed table list", table.name)
    ELSE IF IsMetadataReference(table)
    THEN Rejected("INFORMATION_SCHEMA queries are not allowed", <<>>)
    ELSE Pass
\* Mutant: the allowlist is consulted in both modes whenever it has names.
CheckTableAllowlistInFlex(table, allowed_project, allowed_dataset, is_strict, allowed_tables_lower) ==
    IF IsMetadataReference(table)
    THEN Rejected("INFORMATION_SCHEMA queries are not allowed", <<>>)
    ELSE IF QualifierDiffers(table.catalog, allowed_project)
    THEN Rejected("Query references project", table.catalog)
    ELSE IF QualifierDiffers(table.db, allowed_dataset)
    THEN Rejected("Query references dataset", table.db)
    ELSE IF is_strict /\ (str_lower(table.catalog) = <<>> \/ str_lower(table.db) = <<>>)
    THEN Rejected("Table must be fully qualified", table.name)
    ELSE IF /\ is_strict \/ allowed_tables_lower # {}
            /\ str_lower(table.name) \notin allowed_tables_lower
    THEN Rejected("Table is not in the allowed table list", table.name)
    ELSE Pass

\* Lines 231-259: the checks of one table reference that is not skipped;
\* the error raised, or ok when the reference counts as a real table.
CheckTable(table, allowed_project, allowed_dataset, is_strict, allowed_tables_lower) ==
    IF IsMetadataReference(table)
    THEN Rejected("INFORMATION_SCHEMA queries are not allowed", <<>>)
    ELSE IF QualifierDiffers(table.catalog, allowed_project)
    THEN Rejected("Query references project", table.catalog)
    ELSE IF QualifierDiffers(table.db, allowed_dataset)
    THEN Rejected("Query references dataset", table.db)
    ELSE IF is_strict /\ (str_lower(table.catalog) = <<>> \/ str_lower(table.db) = <<>>)
    THEN Rejected("Table must be fully qualified", table.name)
    ELSE IF is_strict /\ str_lower(table.name) \notin allowed_tables_lower
    THEN Rejected("Table is not in the allowed table list", table.name)
    ELSE Pass

\* Mutant: the first statement is validated whatever follows it.
SingleStatementFirstOnly(statements) == Len(statements) >= 1
\* Line 173: exactly one statement is left
IsSingleStatement(statements) == Len(statements) = 1

\* Mutant: only the root of the statement is inspected.
DisallowedNodesRootOnly(statement) == {}
\* Mutant: nested query blocks are not inspected.
DisallowedNodesOwnBlockOnly(statement) ==
    { i \in 1..Len(walk(statement)) :
        walk(statement)[i].type \in MutationTypes /\ walk(statement)[i].scope = 0 }
\* Lines 188-190: the positions of the walk that hold a mutation-class node
DisallowedNodes(statement) ==
    { i \in 1..Len(walk(statement)) : walk(statement)[i].type \in MutationTypes }

\* Lines 207-210: the lower-cased alias of every CTE node of the tree
CteAliases(statement) ==
    { str_lower(cte.alias) :
        cte \in { c \in Range(find_all(statement, {"CTE"})) : c.alias # <<>> } }

\* Mutant: the default limit is appended whatever the statement holds.
HasLimitNever(statement) == FALSE
\* Line 270: statement.find(exp.Limit) finds a Limit node anywhere in the tree
HasLimit(statement) == find_all(statement, {"Limit"}) # <<>>

\* statement.limit(n): the statement with the row limit n on its own block
with_limit(statement, n) ==
    [statement EXCEPT
        !.nodes = Append(@, [type |-> "Limit", value |-> n, scope |-> 0])]

\* Mutant: only the mode is checked, not the allowlist.
CheckPolicyModeOnly(policy_mode, allowed_tables) ==
    IF policy_mode \notin {"strict", "flex"}
    THEN Rejected("Unknown sql_policy_mode", <<>>)
    ELSE Pass
\* Lines 153-161: the checks of the policy arguments
CheckPolicy(policy_mode, allowed_tables) ==
    IF policy_mode \notin {"strict", "flex"}
    THEN Rejected("Unknown sql_policy_mode", <<>>)
    ELSE IF policy_mode = "strict" /\ (allowed_tables = None \/ allowed_tables[1] = {})
    THEN Rejected("Strict mode requires a non-empty allowed_tables set", <<>>)
    ELSE Pass

validate_sql(sql, allowed_project, allowed_dataset, policy_mode, allowed_tables) ==
    LET no_tables == allowed_tables = None \/ allowed_tables[1] = {}
        policy == CheckPolicy(policy_mode, allowed_tables)
        statements == SelectSeq(sql.statements, LAMBDA s : s # None)
        statement == statements[1][1]
        disallowed == DisallowedNodes(statement)
        funcs == find_all(statement, FuncTypes)
        blocked == { i \in 1..Len(funcs) : _blocked_function_label(funcs[i]) # None }
        cte_aliases == CteAliases(statement)
        allowed_tables_lower ==
            IF no_tables THEN {} ELSE { str_lower(t) : t \in allowed_tables[1] }
        is_strict == policy_mode = "strict"
        tables == find_all(statement, {"Table"})
        checked == { i \in 1..Len(tables) : ~IsCteReference(tables[i], cte_aliases) }
        check(i) == CheckTable(tables[i], allowed_project, allowed_dataset,
                               is_strict, allowed_tables_lower)
        failing == { i \in checked : ~check(i).ok }
        real_table_count == Cardinality(checked)
    IN  IF ~policy.ok
        THEN policy
        ELSE IF ~sql.parses
        THEN IF sql.error = "ParseError"
             THEN Rejected("SQL parse error", <<>>)
             ELSE Raised(sql.error)
        ELSE IF ~IsSingleStatement(statements)
        THEN Rejected("Only single SQL statements are allowed", str_of_int(Len(statements)))
        ELSE IF statement.type # "Select"
        THEN Rejected("Only SELECT statements are allowed. Got", <<statement.type>>)
        ELSE IF disallowed # {}
        THEN Rejected("Only SELECT statements are allowed. Found disallowed",
                      <<walk(statement)[First(disallowed)].type>>)
        ELSE IF blocked # {}
        THEN Rejected("Function is not allowed",
                      _blocked_function_label(funcs[First(blocked)])[1])
        ELSE IF failing # {}
        THEN check(First(failing))
        ELSE IF is_strict /\ real_table_count = 0
        THEN Rejected("Query must reference at least one table in strict mode", <<>>)
        ELSE IF ~HasLimit(statement)
        THEN Accepted(sql_of(with_limit(statement, _DEFAULT_LIMIT)))
        ELSE Accepted(sql_of(statement))

(***************************************************************************)
(* The tool query_infrastructure_metrics                                   *)
(***************************************************************************)
\* The arguments create_bigquery_tool closes over
project_id == <<"P", "j">>
dataset_id == <<"d", "S">>
max_bytes_billed == 100000000
\* query_job.result(timeout=30)
ResultTimeout == 30

ToolResult(ok, error, data) == [ok |-> ok, error |-> error, data |-> data]

\* The failures of the warehouse call, as the exceptions it raises
ExecutionErrors ==
    {"bytes billed limit exceeded", "timeout waiting for result", "transport error",
     "serialization error"}

\* A received row is represented by the length of its JSON text.
RECURSIVE SumSeq(_)
SumSeq(q) == IF q = <<>> THEN 0 ELSE q[1] + SumSeq(Tail(q))

\* len(json.dumps(data)): brackets, the rows, and ", " between rows
payload_len(data) ==
    IF data = <<>> THEN 2 ELSE 2 + SumSeq(data) + 2 * (Len(data) - 1)

\* Mutant: a row that does not fit is skipped and the loop goes on.
RECURSIVE TruncateSkipping(_, _, _)
TruncateSkipping(data, truncated, running_size) ==
    IF data = <<>> THEN truncated
    ELSE IF running_size + data[1] + 1 > _MAX_RESULT_BYTES
    THEN TruncateSkipping(Tail(data), truncated, running_size)
    ELSE TruncateSkipping(Tail(data), Append(truncated, data[1]),
                          running_size + data[1] + 1)

\* Lines 335-343: the rows kept, adding rows while the running size fits
RECURSIVE truncate_rows(_, _, _)
truncate_rows(data, truncated, running_size) ==
    IF data = <<>> THEN truncated
    ELSE IF running_size + data[1] + 1 > _MAX_RESULT_BYTES THEN truncated
    ELSE truncate_rows(Tail(data), Append(truncated, data[1]),
                       running_size + data[1] + 1)

\* Lines 331-343: the payload cap
capped(data) ==
    IF payload_len(data) > _MAX_RESULT_BYTES
    THEN truncate_rows(data, <<>>, 2)
    ELSE data

\* Mutant: the raw input is sent to the warehouse.
QueryTextRaw(raw_sql, validated_sql) == raw_sql
\* Line 325: the text handed to bq_client.query
QueryText(raw_sql, validated_sql) == validated_sql

(***************************************************************************)
(* Settings (config.py) and the wiring of the tool at startup (main.py)    *)
(***************************************************************************)
\* s.split(c): the pieces of s between the occurrences of c
RECURSIVE str_split(_, _)
str_split(s, c) ==
    LET at == { i \in 1..Len(s) : s[i] = c }
    IN  IF at = {} THEN <<s>>
        ELSE <<SubSeq(s, 1, First(at) - 1)>>
             \o str_split(SubSeq(s, First(at) + 1, Len(s)), c)

\* Mutant: the pieces are kept without stripping them.
ParsedTablesUnstripped(sql_allowed_tables) ==
    SelectSeq(str_split(sql_allowed_tables, ","), LAMBDA t : t # <<>>)
\* [t.strip() for t in sql_allowed_tables.split(",") if t.strip()]
ParsedTables(sql_allowed_tables) ==
    LET pieces == str_split(sql_allowed_tables, ",")
        stripped == [i \in 1..Len(pieces) |-> str_strip(pieces[i])]
    IN  SelectSeq(stripped, LAMBDA t : t # <<>>)

\* Settings.get_allowed_tables_set()
get_allowed_tables_set(self) == Range(ParsedTables(self.sql_allowed_tables))

\* The outcome of constructing Settings: the instance, or the error raised
SettingsOk(self) == [ok |-> TRUE, error |-> "", settings |-> self]
SettingsError(error, self) == [ok |-> FALSE, error |-> error, settings |-> self]

\* Settings._validate_sql_policy (the model validator, run after the fields)
_validate_sql_policy(self) ==
    IF self.retrieval_final_k <= 0
    THEN SettingsError("retrieval_final_k must be greater than 0", self)
    ELSE IF self.retrieval_candidate_k < self.retrieval_final_k
    THEN SettingsError("retrieval_candidate_k must be >= retrieval_final_k", self)
    ELSE IF /\ self.sql_policy_mode = "strict"
            /\ ParsedTables(self.sql_allowed_tables) = <<>>
    THEN SettingsError("sql_allowed_tables must not be empty when sql_policy_mode is 'strict'", self)
    ELSE SettingsOk(self)

\* Settings(**environment): the field sql_policy_mode is a Literal of the two
\* modes, validated before the model validator runs
Settings(environment) ==
    IF environment.sql_policy_mode \notin {"strict", "flex"}
    THEN SettingsError("sql_policy_mode", environment)
    ELSE _validate_sql_policy(environment)

(***************************************************************************)
(* The inputs the model draws                                              *)
(***************************************************************************)
\* The most nodes of one kind (tables, function calls) in a statement
MaxNodes == 2
\* The most statements (empty ones included) in a text
MaxStatements == 2
\* The most rows the warehouse returns
MaxRows == 3

SeqsUpTo(S, n) == UNION { [1..k -> S] : k \in 0..n }

s_ANONYMOUS ==
    <<"A", "N", "O", "N", "Y", "M", "O", "U", "S">>
s_Anonymous ==
    <<"A", "n", "o", "n", "y", "m", "o", "u", "s">>

Table(catalog, db, name, scope) ==
    [type |-> "Table", catalog |-> catalog, db |-> db, name |-> name, scope |-> scope]
CTE(alias, scope) == [type |-> "CTE", alias |-> alias, scope |-> scope]
Limit(value, scope) == [type |-> "Limit", value |-> value, scope |-> scope]
Mutation(type, scope) == [type |-> type, scope |-> scope]
Anonymous(name, scope) ==
    [type |-> "Anonymous", name |-> name, sql_name |-> s_ANONYMOUS,
     class_name |-> s_Anonymous, scope |-> scope]
Select(nodes) == [type |-> "Select", nodes |-> nodes]

s_INFORMATION_SCHEMA_TABLES ==
    <<"I", "N", "F", "O", "R", "M", "A", "T", "I", "O", "N", "_", "S", "C", "H", "E", "M", "A", ".", "T", "A", "B", "L", "E", "S">>
s_Information_Schema ==
    <<"I", "n", "f", "o", "r", "m", "a", "t", "i", "o", "n", "_", "S", "c", "h", "e", "m", "a">>

\* Qualifiers: absent, the allowed one in another letter case, another one.
\* A catalog is present only when a dataset is.
Catalogs == { <<>>, <<"p", "J">>, <<"q", "x">> }
Datasets == { <<>>, <<"D", "s">>, <<"e", "x">> }
\* Table names: allowed up to case, not allowed.  The allowlist is {T, u}.
TableNames == { <<"t">>, <<"s">> }
AllowedTables == { <<"T">>, <<"u">> }

MetadataRefs ==
    { Table(<<"p", "J">>, <<"D", "s">>, s_INFORMATION_SCHEMA_TABLES, 0),
      Table(<<>>, s_Information_Schema, <<"t">>, 0),
      Table(<<"q", "x">>, s_information_schema, <<"t">>, 0) }

TableRefs ==
    { Table(c, d, n, 0) :
        c \in Catalogs, d \in Datasets, n \in TableNames } \ 
    { Table(c, <<>>, n, 0) : c \in Catalogs \ {<<>>}, n \in TableNames }

GoodTable == Table(<<"p", "J">>, <<"D", "s">>, <<"t">>, 0)
FewTableSeqs ==
    { <<>>, <<GoodTable>>, <<Table(<<"q", "x">>, <<"e", "x">>, <<"t">>, 0)>>,
      <<Table(<<>>, <<>>, <<"t">>, 0)>>,
      <<Table(<<>>, s_Information_Schema, <<"t">>, 0)>> }

\* References around a CTE named A: in the outer block (0) or in a nested
\* one (1), unqualified or qualified, to the alias or to tables.
CteRefs ==
    { CTE(<<"A">>, 0), CTE(<<"A">>, 1) }
CteTables ==
    { Table(<<>>, <<>>, <<"a">>, 0), Table(<<>>, <<>>, <<"a">>, 1),
      Table(<<"p", "J">>, <<"D", "s">>, <<"a">>, 0),
      Table(<<>>, <<"D", "s">>, <<"a">>, 0),
      Table(<<"p", "J">>, <<"D", "s">>, <<"t">>, 0),
      Table(<<"p", "J">>, <<"D", "s">>, <<"t">>, 1),
      Table(<<"p", "J">>, <<"D", "s">>, <<"s">>, 1),
      Table(<<>>, <<>>, s_INFORMATION_SCHEMA_TABLES, 1) }

s_EXTERNAL_QUERY ==
    <<"E", "X", "T", "E", "R", "N", "A", "L", "_", "Q", "U", "E", "R", "Y">>
s_MlPredict ==
    <<"M", "l", "P", "r", "e", "d", "i", "c", "t">>
s_Read_Gbq_padded ==
    <<" ", "R", "e", "a", "d", "_", "G", "b", "q", "\t">>
s_ML_PREDICT ==
    <<"M", "L", ".", "P", "R", "E", "D", "I", "C", "T">>
s_ml_underscore_predict ==
    <<"m", "l", "_", "p", "r", "e", "d", "i", "c", "t">>
s_Ml_Detect_Anomalies ==
    <<"M", "l", " ", "D", "e", "t", "e", "c", "t", ".", "A", "n", "o", "m", "a", "l", "i", "e", "s">>
s_forecast ==
    <<"f", "o", "r", "e", "c", "a", "s", "t">>
s_query ==
    <<"q", "u", "e", "r", "y">>
s_PREDICT ==
    <<"P", "R", "E", "D", "I", "C", "T">>
s_Predict ==
    <<"P", "r", "e", "d", "i", "c", "t">>
s_COUNT ==
    <<"C", "O", "U", "N", "T">>
s_Count ==
    <<"C", "o", "u", "n", "t">>

\* Spellings of call names: blocked names in several cases and punctuations,
\* a basename of a dotted blocked name, and names that are not blocked.
BlockedSpellings ==
    { s_EXTERNAL_QUERY, s_external_query, s_Read_Gbq_padded, s_ML_PREDICT,
      s_ml_underscore_predict, s_MlPredict, s_Ml_Detect_Anomalies }
OtherSpellings == { s_forecast, s_query }
TypedFuncs ==
    { [type |-> "Predict", name |-> <<>>, sql_name |-> s_PREDICT,
       class_name |-> s_Predict, scope |-> 0],
      [type |-> "Count", name |-> <<>>, sql_name |-> s_COUNT,
       class_name |-> s_Count, scope |-> 1] }
FuncNodes ==
    { Anonymous(name, 0) : name \in BlockedSpellings \cup OtherSpellings }
    \cup { Anonymous(s_EXTERNAL_QUERY, 1) } \cup TypedFuncs

\* Statements by family: each varies some kinds of node over all sequences
\* up to the bound and keeps the others few.
TableSelects == { Select(ts) : ts \in SeqsUpTo(TableRefs \cup MetadataRefs, MaxNodes) }
CteSelects ==
    { Select(<<c>> \o ts) : c \in CteRefs, ts \in SeqsUpTo(CteTables, MaxNodes) }
FuncSelects ==
    { Select(fs \o ts) :
        fs \in SeqsUpTo(FuncNodes, MaxNodes),
        ts \in {<<>>, <<GoodTable>>, <<Table(<<"q", "x">>, <<"e", "x">>, <<"t">>, 0)>>} }
RootTypes == {"Select", "Union"} \cup MutationTypes
RootStatements ==
    { [type |-> r, nodes |-> ts] : r \in RootTypes, ts \in {<<>>, <<GoodTable>>} }
NestedMutationSelects ==
    { Select(<<CTE(<<"A">>, 0), Mutation(m, 1)>> \o ts) :
        m \in MutationTypes, ts \in FewTableSeqs }
    \cup { Select(<<GoodTable, Anonymous(s_EXTERNAL_QUERY, 0), Mutation(m, 1)>>) :
             m \in MutationTypes }
Limits == { Limit(5, 0), Limit(5, 1), Limit(5000, 0) }
\* A statement has at most one LIMIT of its own; a subquery may have another
LimitSeqs == SeqsUpTo(Limits, 1) \cup { <<Limit(5, 1), Limit(5000, 0)>> }
LimitSelects ==
    { Select(ts \o ls) : ts \in FewTableSeqs, ls \in LimitSeqs }

Statements ==
    TableSelects \cup CteSelects \cup FuncSelects \cup RootStatements
    \cup NestedMutationSelects \cup LimitSelects

\* Texts of several statements: the statements are few, None stands for an
\* empty statement (a trailing or doubled semicolon).
FewStatements ==
    { Select(<<>>), Select(<<GoodTable>>), Select(<<GoodTable, Limit(5, 0)>>),
      [type |-> "Drop", nodes |-> <<GoodTable>>],
      Select(<<Anonymous(s_EXTERNAL_QUERY, 0)>>),
      Select(<<Table(<<"q", "x">>, <<"e", "x">>, <<"t">>, 0)>>) }
MultiTexts ==
    { Text(ss) : ss \in SeqsUpTo({None} \cup { Some(st) : st \in FewStatements },
                                 MaxStatements) }

Texts ==
    { Text(<<Some(st)>>) : st \in Statements } \cup MultiTexts
    \cup {Unparseable, Untokenizable}

\* Policies: the two the settings admit with the default kind of allowlist,
\* and, on few texts, the ones validate_sql itself has to refuse or to
\* accept without an allowlist.
Policies ==
    { [mode |-> m, tables |-> Some(AllowedTables)] : m \in {"strict", "flex"} }
OtherPolicies ==
    { [mode |-> m, tables |-> t] :
        m \in {"strict", "flex", "yolo", ""},
        t \in {None, Some({}), Some(AllowedTables)} } \ Policies
FewTexts ==
    { Text(<<Some(st)>>) : st \in FewStatements }
    \cup {Unparseable, Untokenizable, Text(<<>>)}

Calls ==
    { [sql |-> t, policy |-> p] : t \in Texts, p \in Policies }
    \cup { [sql |-> t, policy |-> p] : t \in FewTexts, p \in OtherPolicies }

\* JSON lengths of rows, and the row sequences the warehouse may return
RowSizes == { 16665, 30000 }
\* and of a row that alone is larger than the budget
OversizedRow == 60000
RowSeqs ==
    SeqsUpTo(RowSizes, MaxRows)
    \cup { <<OversizedRow>> \o small : small \in SeqsUpTo({16665}, MaxRows - 1) }

\* Environments of the service: the mode, the allowlist string (empty,
\* blanks and commas only, names, names with blanks), the retrieval sizes.
s_T_u == <<"T", ",", "u">>
s_T_u_padded == <<" ", "T", " ", ",", " ", "u", ",">>
s_blank_commas == <<" ", " ", ",", " ", ",", " ">>
AllowlistStrings == { <<>>, s_blank_commas, s_T_u, s_T_u_padded }
RetrievalSizes ==
    { [candidate_k |-> 20, final_k |-> 5], [candidate_k |-> 3, final_k |-> 5],
      [candidate_k |-> 20, final_k |-> 0] }
Environments ==
    { [sql_policy_mode |-> m, sql_allowed_tables |-> a,
       retrieval_candidate_k |-> k.candidate_k, retrieval_final_k |-> k.final_k] :
        m \in {"strict", "flex", "yolo"}, a \in AllowlistStrings, k \in RetrievalSizes }

VARIABLES
    env,            \* None for a tool built by a direct caller, or
                    \* Some(environment the service starts in)
    settings,       \* None, or Some(outcome of constructing Settings)
    sql,            \* the tool's argument: the candidate SQL text
    policy_mode,    \* closed over by the tool
    allowed_tables, \* closed over by the tool: None or Some(set of names)
    pc,             \* the position: of the startup, then of the invocation
    cleaned_sql,    \* None, or Some(text validate_sql returned)
    clients,        \* warehouse clients created
    issued,         \* the queries sent to the warehouse, with their job config
    waited,         \* the timeouts of the waits for a result
    rows,           \* the rows received
    result,         \* None, or Some(ToolResult returned)
    module,         \* the module-level objects of bigquery_sql.py
    calls,          \* the concurrent calls of validate_sql, by caller
    rules,          \* RateLimitMiddleware.rules
    now,            \* time.monotonic()
    hits,           \* RateLimitMiddleware._hits
    log,            \* the requests dispatched so far, with their outcome
    inflight        \* the number of forwarded requests still downstream

toolVars == <<env, settings, sql, policy_mode, allowed_tables, pc, cleaned_sql, clients,
              issued, waited, rows, result>>
callVars == <<module, calls>>
limiterVars == <<rules, now, hits, log, inflight>>

vars == <<env, settings, sql, policy_mode, allowed_tables, pc, cleaned_sql, clients, issued,
          waited, rows, result, module, calls, rules, now, hits, log, inflight>>

\* main.py lifespan: Settings() is constructed; when it raises, startup
\* fails and no tool exists; otherwise the tool is created with the mode and
\* the parsed allowlist of the settings.
LoadSettings ==
    /\ pc = "config"
    /\ LET loaded == Settings(env[1])
       IN  /\ settings' = Some(loaded)
           /\ IF loaded.ok
              THEN /\ policy_mode' = loaded.settings.sql_policy_mode
                   /\ allowed_tables' = Some(get_allowed_tables_set(loaded.settings))
                   /\ pc' = "start"
              ELSE /\ pc' = "failed"
                   /\ UNCHANGED <<policy_mode, allowed_tables>>
    /\ UNCHANGED <<env, sql, cleaned_sql, clients, issued, waited, rows, result>>
    /\ UNCHANGED <<callVars, limiterVars>>

\* Lines 306-313: validate; a SQLValidationError ends the invocation with
\* a result, any other exception of validate_sql leaves the tool uncaught
Validate ==
    /\ pc = "start"
    /\ LET v == validate_sql(sql, project_id, dataset_id, policy_mode, allowed_tables)
       IN  IF v.ok
           THEN /\ cleaned_sql' = Some(v.sql)
                /\ pc' = "client"
                /\ UNCHANGED result
           ELSE IF v.exception = "SQLValidationError"
           THEN /\ result' = Some(ToolResult(FALSE, Some([msg |-> v.msg, arg |-> v.arg]), None))
                /\ pc' = "done"
                /\ UNCHANGED cleaned_sql
           ELSE /\ pc' = "raised"
                /\ UNCHANGED <<cleaned_sql, result>>
    /\ UNCHANGED <<env, settings, sql, policy_mode, allowed_tables, clients, issued, waited, rows>>
    /\ UNCHANGED <<callVars, limiterVars>>

\* Lines 347-349: any exception of the execution part ends the invocation
Failed(e) ==
    /\ result' = Some(ToolResult(FALSE, Some([msg |-> e, arg |-> <<>>]), None))
    /\ pc' = "done"

\* Lines 317-323: the client and the job configuration
CreateClient ==
    /\ pc = "client"
    /\ \/ /\ clients' = clients + 1
          /\ pc' = "query"
          /\ UNCHANGED result
       \/ /\ Failed("client error")
          /\ UNCHANGED clients
    /\ UNCHANGED <<env, settings, sql, policy_mode, allowed_tables, cleaned_sql, issued, waited, rows>>
    /\ UNCHANGED <<callVars, limiterVars>>

IssueQueryWithoutCeiling ==
    /\ pc = "query"
    /\ \/ /\ issued' = Append(issued,
                    [query |-> QueryText(sql, cleaned_sql[1]),
                     maximum_bytes_billed |-> 0])
          /\ pc' = "wait"
          /\ UNCHANGED result
       \/ /\ Failed("transport error")
          /\ UNCHANGED issued
    /\ UNCHANGED <<env, settings, sql, policy_mode, allowed_tables, cleaned_sql, clients, waited, rows>>
    /\ UNCHANGED <<callVars, limiterVars>>

\* Line 325: the query is sent with its job configuration
IssueQuery ==
    /\ pc = "query"
    /\ \/ /\ issued' = Append(issued,
                    [query |-> QueryText(sql, cleaned_sql[1]),
                     maximum_bytes_billed |-> max_bytes_billed])
          /\ pc' = "wait"
          /\ UNCHANGED result
       \/ /\ Failed("transport error")
          /\ UNCHANGED issued
    /\ UNCHANGED <<env, settings, sql, policy_mode, allowed_tables, cleaned_sql, clients, waited, rows>>
    /\ UNCHANGED <<callVars, limiterVars>>

AwaitResultRetrying ==
    /\ pc = "wait"
    /\ waited' = Append(waited, ResultTimeout)
    /\ \/ \E received \in RowSeqs :
            /\ rows' = received
            /\ result' = Some(ToolResult(TRUE, None, Some(capped(received))))
            /\ pc' = "done"
       \/ /\ pc' = "query"
          /\ UNCHANGED <<rows, result>>
    /\ UNCHANGED <<env, settings, sql, policy_mode, allowed_tables, cleaned_sql, clients, issued>>
    /\ UNCHANGED <<callVars, limiterVars>>

\* Lines 326-345: wait for the rows, cap the payload, return
AwaitResult ==
    /\ pc = "wait"
    /\ waited' = Append(waited, ResultTimeout)
    /\ \/ \E received \in RowSeqs :
            /\ rows' = received
            /\ result' = Some(ToolResult(TRUE, None, Some(capped(received))))
            /\ pc' = "done"
       \/ \E e \in ExecutionErrors :
            /\ Failed(e)
            /\ UNCHANGED rows
    /\ UNCHANGED <<env, settings, sql, policy_mode, allowed_tables, cleaned_sql, clients, issued>>
    /\ UNCHANGED <<callVars, limiterVars>>

\* Either a caller has built the tool with a policy of its choice and calls
\* it, or the service starts in an environment, with no tool yet, and a
\* query that will be submitted once it is up.
Init ==
    /\ \/ \E call \in Calls :
            /\ env = None
            /\ sql = call.sql
            /\ policy_mode = call.policy.mode
            /\ allowed_tables = call.policy.tables
            /\ pc = "start"
       \/ \E environment \in Environments, text \in FewTexts :
            /\ env = Some(environment)
            /\ sql = text
            /\ policy_mode = ""
            /\ allowed_tables = None
            /\ pc = "config"
    /\ settings = None
    /\ cleaned_sql = None
    /\ clients = 0
    /\ issued = <<>>
    /\ waited = <<>>
    /\ rows = <<>>
    /\ result = None
    /\ module = Module
    /\ calls = <<>>
    /\ rules = <<>>
    /\ now = 0
    /\ hits = <<>>
    /\ log = <<>>
    /\ inflight = 0

Next == LoadSettings \/ Validate \/ CreateClient \/ IssueQuery \/ AwaitResult

Spec == Init /\ [][Next]_vars

(***************************************************************************)
(* Concurrent calls of validate_sql                                        *)
(*                                                                         *)
(* validate_sql is called from request-handling tasks that may overlap.    *)
(* A call runs through the stages of lines 153-273; between two stages     *)
(* any other call may run.  What a call keeps between stages (statements,  *)
(* cte_aliases, real_table_count, ...) are locals of its own frame,        *)
(* determined by its arguments and the stage it is at; what calls share    *)
(* are the module-level tables, which the function stage reads.            *)
(***************************************************************************)
\* The tool's variables in a specification that invokes no tool
NoTool ==
    /\ env = None
    /\ settings = None
    /\ sql = Unparseable
    /\ policy_mode = ""
    /\ allowed_tables = None
    /\ pc = "none"
    /\ cleaned_sql = None
    /\ clients = 0
    /\ issued = <<>>
    /\ waited = <<>>
    /\ rows = <<>>
    /\ result = None

\* The middleware's variables in a specification that dispatches nothing
NoLimiter ==
    /\ rules = <<>>
    /\ now = 0
    /\ hits = <<>>
    /\ log = <<>>
    /\ inflight = 0

MaxCallers == 2
Callers == 1..MaxCallers

Stages == <<"policy", "parse", "select", "functions", "tables", "limit">>
StageAfter(stage) ==
    LET i == CHOOSE j \in 1..Len(Stages) : Stages[j] = stage
    IN  IF i = Len(Stages) THEN "returned" ELSE Stages[i + 1]

\* One stage of validate_sql, reading the module-level tables mod: Pass
\* when the stage raises nothing, the exception raised or the value
\* returned otherwise.
validate_sql_stage(stage, text, allowed_project, allowed_dataset, mode, tables_arg, mod) ==
    LET no_tables == tables_arg = None \/ tables_arg[1] = {}
        statements == SelectSeq(text.statements, LAMBDA s : s # None)
        statement == statements[1][1]
        disallowed == DisallowedNodes(statement)
        funcs == find_all(statement, FuncTypes)
        blocked == { i \in 1..Len(funcs) : LabelIn(funcs[i], mod) # None }
        cte_aliases == CteAliases(statement)
        allowed_tables_lower ==
            IF no_tables THEN {} ELSE { str_lower(t) : t \in tables_arg[1] }
        is_strict == mode = "strict"
        tables == find_all(statement, {"Table"})
        checked == { i \in 1..Len(tables) : ~IsCteReference(tables[i], cte_aliases) }
        check(i) == CheckTable(tables[i], allowed_project, allowed_dataset,
                               is_strict, allowed_tables_lower)
        failing == { i \in checked : ~check(i).ok }
    IN  CASE stage = "policy" -> CheckPolicy(mode, tables_arg)
          [] stage = "parse" ->
                IF ~text.parses
                THEN IF text.error = "ParseError"
                     THEN Rejected("SQL parse error", <<>>)
                     ELSE Raised(text.error)
                ELSE IF ~IsSingleStatement(statements)
                THEN Rejected("Only single SQL statements are allowed",
                              str_of_int(Len(statements)))
                ELSE Pass
          [] stage = "select" ->
                IF statement.type # "Select"
                THEN Rejected("Only SELECT statements are allowed. Got", <<statement.type>>)
                ELSE IF disallowed # {}
                THEN Rejected("Only SELECT statements are allowed. Found disallowed",
                              <<walk(statement)[First(disallowed)].type>>)
                ELSE Pass
          [] stage = "functions" ->
                IF blocked # {}
                THEN Rejected("Function is not allowed",
                              LabelIn(funcs[First(blocked)], mod)[1])
                ELSE Pass
          [] stage = "tables" ->
                IF failing # {}
                THEN check(First(failing))
                ELSE IF is_strict /\ Cardinality(checked) = 0
                THEN Rejected("Query must reference at least one table in strict mode", <<>>)
                ELSE Pass
          [] stage = "limit" ->
                IF ~HasLimit(statement)
                THEN Accepted(sql_of(with_limit(statement, _DEFAULT_LIMIT)))
                ELSE Accepted(sql_of(statement))

\* The arguments of the concurrent calls
CallTexts ==
    { Untokenizable, Text(<<Some([type |-> "Drop", nodes |-> <<GoodTable>>]), None>>),
      Text(<<Some(Select(<<Table(<<>>, <<>>, <<"t">>, 0)>>))>>),
      Text(<<Some(Select(<<Anonymous(s_EXTERNAL_QUERY, 0)>>))>>),
      Text(<<Some(Select(<<Anonymous(s_query, 0), GoodTable>>))>>) }
CallArgs ==
    { [sql |-> t, policy |-> p] :
        t \in CallTexts,
        p \in Policies \cup {[mode |-> "strict", tables |-> Some({})]} }

Call(args) == [args |-> args, stage |-> "policy", outcome |-> None]

\* Caller c runs the stage it is at: the call goes on with the next stage,
\* or ends with what the stage raised or returned.  No statement of
\* validate_sql assigns to a module-level name or changes a module-level
\* object.
RunStage(c, stage) ==
    /\ calls[c].stage = stage
    /\ LET a == calls[c].args
           r == validate_sql_stage(stage, a.sql, project_id, dataset_id,
                                   a.policy.mode, a.policy.tables, module)
       IN  calls' = [calls EXCEPT ![c] =
                IF r = Pass
                THEN [@ EXCEPT !.stage = StageAfter(stage)]
                ELSE [@ EXCEPT !.stage = "returned", !.outcome = Some(r)]]
    /\ UNCHANGED <<module, toolVars, limiterVars>>

\* Lines 153-161
PolicyStage == \E c \in Callers : RunStage(c, "policy")
\* Lines 164-176
ParseStage == \E c \in Callers : RunStage(c, "parse")
\* Lines 181-193
SelectStage == \E c \in Callers : RunStage(c, "select")

FunctionStageConsuming ==
    \E c \in Callers :
        /\ calls[c].stage = "functions"
        /\ LET a == calls[c].args
               r == validate_sql_stage("functions", a.sql, project_id, dataset_id,
                                       a.policy.mode, a.policy.tables, module)
           IN  /\ calls' = [calls EXCEPT ![c] =
                      IF r = Pass
                      THEN [@ EXCEPT !.stage = StageAfter("functions")]
                      ELSE [@ EXCEPT !.stage = "returned", !.outcome = Some(r)]]
               /\ module' = IF r = Pass THEN module
                             ELSE [module EXCEPT !.canonical = {}]
        /\ UNCHANGED <<toolVars, limiterVars>>

\* Lines 198-203
FunctionStage == \E c \in Callers : RunStage(c, "functions")
\* Lines 207-267
TableStage == \E c \in Callers : RunStage(c, "tables")
\* Lines 270-273
LimitStage == \E c \in Callers : RunStage(c, "limit")

ConcurrentInit ==
    /\ module = Module
    /\ calls \in [Callers -> { Call(a) : a \in CallArgs }]
    /\ NoTool
    /\ NoLimiter

ConcurrentNext ==
    PolicyStage \/ ParseStage \/ SelectStage \/ FunctionStage \/ TableStage \/ LimitStage

ConcurrentSpec == ConcurrentInit /\ [][ConcurrentNext]_vars

(***************************************************************************)
(* RateLimitMiddleware                                                     *)
(*                                                                         *)
(* A path is the sequence of its segments.  Time is the reading of         *)
(* time.monotonic(), in whole seconds; two requests may read the same      *)
(* time.  dispatch has no await between its entry and call_next, so on the *)
(* event loop everything it does before forwarding is one step; the        *)
(* downstream handling of forwarded requests overlaps with later           *)
(* dispatches.                                                             *)
(***************************************************************************)
MaxRequests == 3
MaxTime == 2
window_seconds == 2

p_upload == <<"api", "upload">>
p_chat == <<"api", "chat">>
p_upload_status == <<"api", "upload", "status">>
Paths == {p_upload, p_chat, p_upload_status}

\* request.client: Some(host), or None
Clients == {Some("10.0.0.1"), None}

\* main.py create_app: the rules are the two per-minute settings, which
\* Settings accepts as any integers
RuleSets ==
    { (p_upload :> 0) @@ (p_chat :> 1), (p_upload :> 1) @@ (p_chat :> 2) }

IsPrefix(p, q) == Len(p) <= Len(q) /\ SubSeq(q, 1, Len(p)) = p

\* Mutant: a rule applies to every path that starts with its path.
MatchRuleByPrefix(path) ==
    LET matching == { rule_path \in DOMAIN rules : IsPrefix(rule_path, path) }
    IN  IF matching = {} THEN None
        ELSE LET rule_path == CHOOSE r \in matching : TRUE
             IN  Some(<<rule_path, rules[rule_path]>>)

\* _match_rule(path): the rule whose path equals the request's
_match_rule(path) ==
    IF path \in DOMAIN rules THEN Some(<<path, rules[path]>>) ELSE None

\* Lines 66-67: drop the timestamps that left the window
RECURSIVE evict(_, _)
evict(timestamps, window_start) ==
    IF timestamps # <<>> /\ Head(timestamps) <= window_start
    THEN evict(Tail(timestamps), window_start)
    ELSE timestamps

\* self._hits[key] of a defaultdict(deque)
hits_of(key) == IF key \in DOMAIN hits THEN hits[key] ELSE <<>>

Entry(client, path, status, retry_after) ==
    [client |-> client, path |-> path, at |-> now, status |-> status,
     retry_after |-> retry_after]

\* dispatch up to its return or its call_next
Dispatch ==
    \E client \in Clients, path \in Paths :
        /\ Len(log) < MaxRequests
        /\ LET match == _match_rule(path)
           IN  IF match = None
               THEN /\ log' = Append(log, Entry(client, path, "forwarded", None))
                    /\ inflight' = inflight + 1
                    /\ UNCHANGED hits
               ELSE LET prefix == match[1][1]
                        limit == match[1][2]
                        client_ip == IF client # None THEN client[1] ELSE "unknown"
                        key == <<client_ip, prefix>>
                        window_start == now - window_seconds
                        timestamps == evict(hits_of(key), window_start)
                    IN  IF Len(timestamps) >= limit
                        THEN /\ hits' = (key :> timestamps) @@ hits
                             /\ UNCHANGED inflight
                             /\ IF timestamps = <<>>
                                \* timestamps[0] of an empty deque
                                THEN log' = Append(log, Entry(client, path, "IndexError", None))
                                ELSE log' = Append(log, Entry(client, path, "429",
                                              Some(timestamps[1] - window_start + 1)))
                        ELSE /\ hits' = (key :> Append(timestamps, now)) @@ hits
                             /\ log' = Append(log, Entry(client, path, "forwarded", None))
                             /\ inflight' = inflight + 1
        /\ UNCHANGED <<rules, now, toolVars, callVars>>

\* A forwarded request is answered downstream
Respond ==
    /\ inflight > 0
    /\ inflight' = inflight - 1
    /\ UNCHANGED <<rules, now, hits, log, toolVars, callVars>>

\* time.monotonic() goes on
Tick ==
    /\ now < MaxTime
    /\ now' = now + 1
    /\ UNCHANGED <<rules, hits, log, inflight, toolVars, callVars>>

LimiterInit ==
    /\ rules \in RuleSets
    /\ now = 0
    /\ hits = <<>>
    /\ log = <<>>
    /\ inflight = 0
    /\ NoTool
    /\ module = Module
    /\ calls = <<>>

LimiterNext == Dispatch \/ Respond \/ Tick

LimiterSpec == LimiterInit /\ [][LimiterNext]_vars

(***************************************************************************)
(* What the properties speak of                                            *)
(***************************************************************************)
\* validate_sql has returned or raised
Validated == pc \in {"client", "query", "wait", "done"}
\* validate_sql returned a cleaned SQL text
IsAccepted == cleaned_sql # None
\* validate_sql raised the error with message msg
RejectedWith(msg) ==
    /\ pc = "done"
    /\ cleaned_sql = None
    /\ result[1].error[1].msg = msg
\* ... and with the value arg formatted into the message
RejectedNaming(msg, arg) == RejectedWith(msg) /\ result[1].error[1].arg = arg

\* The policy is one the settings admit
ValidPolicy ==
    \/ policy_mode = "flex"
    \/ policy_mode = "strict" /\ allowed_tables # None /\ allowed_tables[1] # {}

\* The non-empty statements of the text, and the statement when there is one
NonEmptyStatements == { i \in 1..Len(sql.statements) : sql.statements[i] # None }
TheStatement == sql.statements[First(NonEmptyStatements)][1]
SingleStatement == sql.parses /\ Cardinality(NonEmptyStatements) = 1
SingleSelect == SingleStatement /\ TheStatement.type = "Select"
NodesOf(statement, types) == { n \in Range(statement.nodes) : n.type \in types }
TablesOf(statement) == NodesOf(statement, {"Table"})
NoMutationNode == NodesOf(TheStatement, MutationTypes) = {}
FunctionPolicyPasses ==
    \A f \in NodesOf(TheStatement, FuncTypes) : _blocked_function_label(f) = None

\* The reference carries both qualifiers, they are the allowed project and
\* dataset up to letter case, and its name is in the allowlist up to case.
AllowedNames ==
    IF allowed_tables = None THEN {} ELSE { str_lower(t) : t \in allowed_tables[1] }
FullyQualifiedAllowed(t) ==
    /\ str_lower(t.catalog) = str_lower(project_id)
    /\ str_lower(t.db) = str_lower(dataset_id)
    /\ str_lower(t.name) \in AllowedNames
HasMarker(t) ==
    \/ str_contains(str_lower(t.name), s_information_schema)
    \/ str_contains(str_lower(t.db), s_information_schema)

\* A CTE bound by the WITH clause of block c is visible in block c and, when
\* c is the statement's own block, in every nested block.
Visible(cte, t) == cte.scope = 0 \/ cte.scope = t.scope
ResolvesToVisibleCte(t, statement) ==
    /\ t.catalog = <<>>
    /\ t.db = <<>>
    /\ \E cte \in NodesOf(statement, {"CTE"}) :
          str_lower(cte.alias) = str_lower(t.name) /\ Visible(cte, t)

ProjectMismatch(t) ==
    t.catalog # <<>> /\ str_lower(t.catalog) # str_lower(project_id)
DatasetMismatch(t) ==
    t.db # <<>> /\ str_lower(t.db) # str_lower(dataset_id)

\* The table references in traversal order, and the ones validate_sql skips
\* as CTE references
TableSeq == find_all(TheStatement, {"Table"})
Exempted(t) == IsCteReference(t, CteAliases(TheStatement))
\* The reference breaks a rule other than the INFORMATION_SCHEMA one
BreaksScopeRule(t) ==
    \/ ProjectMismatch(t)
    \/ DatasetMismatch(t)
    \/ /\ policy_mode = "strict"
       /\ \/ t.catalog = <<>>
          \/ t.db = <<>>
          \/ str_lower(t.name) \notin AllowedNames

\* Two names differ only in letter case, surrounding whitespace, dots,
\* underscores and spaces.
Trimmed(s) ==
    LET keep == { i \in 1..Len(s) : s[i] \notin Whitespace }
    IN  IF keep = {} THEN <<>>
        ELSE SubSeq(s, CHOOSE i \in keep : \A j \in keep : i <= j,
                       CHOOSE i \in keep : \A j \in keep : j <= i)
RECURSIVE SameLetters(_, _)
SameLetters(a, b) ==
    IF a # <<>> /\ a[1] \in {".", "_", " "} THEN SameLetters(Tail(a), b)
    ELSE IF b # <<>> /\ b[1] \in {".", "_", " "} THEN SameLetters(a, Tail(b))
    ELSE IF a = <<>> \/ b = <<>> THEN a = <<>> /\ b = <<>>
    ELSE LowerChar(a[1]) = LowerChar(b[1]) /\ SameLetters(Tail(a), Tail(b))
SameUpToCaseAndPunctuation(a, b) == SameLetters(Trimmed(a), Trimmed(b))

\* The statement of the text validate_sql returned
ReturnedStatement == cleaned_sql[1].statements[1][1]

(***************************************************************************)
(* Properties                                                              *)
(***************************************************************************)
\* C1: a query is issued to the warehouse only when validate_sql accepted
\* the input, and its text is the text validate_sql returned (not the raw
\* input); when validate_sql rejects, no client is created, no query is
\* issued and the tool returns ok=False, the rejection message, data=None.
C1_IssuesOnlyValidatedSql ==
    /\ issued # <<>> =>
          LET v == validate_sql(sql, project_id, dataset_id, policy_mode, allowed_tables)
          IN  /\ v.ok
              /\ \A i \in 1..Len(issued) : issued[i].query = v.sql
    /\ (pc = "done" /\ cleaned_sql = None) =>
          LET v == validate_sql(sql, project_id, dataset_id, policy_mode, allowed_tables)
          IN  /\ ~v.ok
              /\ clients = 0
              /\ issued = <<>>
              /\ result = Some(ToolResult(FALSE, Some([msg |-> v.msg, arg |-> v.arg]), None))
C1_Witness ==
    /\ Len(issued) = 1
    /\ issued[1].query # sql
    /\ issued[1].query = cleaned_sql[1]

\* C2 (as claimed): when validate_sql accepts in strict mode, every table
\* reference that does not resolve to a CTE visible where it stands is fully
\* qualified with the allowed project and dataset and names an allowlisted
\* table, and there is at least one such reference.
C2_StrictAcceptsOnlyAllowedTables ==
    (IsAccepted /\ policy_mode = "strict") =>
        /\ \A t \in TablesOf(TheStatement) :
              ~ResolvesToVisibleCte(t, TheStatement) => FullyQualifiedAllowed(t)
        /\ \E t \in TablesOf(TheStatement) : ~ResolvesToVisibleCte(t, TheStatement)

\* C3 (as claimed): in strict mode every SELECT whose table references are
\* all allowlisted and fully qualified to the allowed project and dataset
\* is accepted, and the returned SQL has a LIMIT clause.
C3_AllowedSelectAccepted ==
    ( /\ Validated
      /\ policy_mode = "strict" /\ ValidPolicy
      /\ SingleSelect
      /\ \A t \in TablesOf(TheStatement) : FullyQualifiedAllowed(t) )
    => ( /\ IsAccepted
         /\ NodesOf(ReturnedStatement, {"Limit"}) # {} )
\* C3 (amended): ... provided the SELECT has at least one table reference,
\* no mutation-class node, no function call the function policy blocks and
\* no reference naming INFORMATION_SCHEMA.
C3_AllowedSelectWithTableAccepted ==
    ( /\ Validated
      /\ policy_mode = "strict" /\ ValidPolicy
      /\ SingleSelect
      /\ TablesOf(TheStatement) # {}
      /\ \A t \in TablesOf(TheStatement) : FullyQualifiedAllowed(t) /\ ~HasMarker(t)
      /\ NoMutationNode
      /\ FunctionPolicyPasses )
    => ( /\ IsAccepted
         /\ NodesOf(ReturnedStatement, {"Limit"}) # {} )
C3_Witness ==
    /\ IsAccepted
    /\ policy_mode = "strict"
    /\ NodesOf(TheStatement, {"Limit"}) = {}
    /\ NodesOf(ReturnedStatement, {"Limit"}) # {}
    /\ \A t \in TablesOf(TheStatement) : FullyQualifiedAllowed(t)

\* A reference, inside a nested block, to a table of the allowed project and
\* dataset that is not in the allowlist
UnknownInBody(t) ==
    /\ t.scope > 0
    /\ str_lower(t.catalog) = str_lower(project_id)
    /\ str_lower(t.db) = str_lower(dataset_id)
    /\ str_lower(t.name) \notin AllowedNames
    /\ ~HasMarker(t)
\* C4: in strict mode a table reference inside a CTE body is checked like
\* any other: a statement that binds a CTE and whose nested block references
\* a table qualified to the allowed project and dataset but not in the
\* allowlist, all other references being references to the CTE or allowed
\* tables, is rejected with the unknown-table error naming such a table.
C4_CteBodyTableChecked ==
    ( /\ Validated
      /\ policy_mode = "strict" /\ ValidPolicy
      /\ SingleSelect /\ NoMutationNode /\ FunctionPolicyPasses
      /\ NodesOf(TheStatement, {"CTE"}) # {}
      /\ \E t \in TablesOf(TheStatement) : UnknownInBody(t)
      /\ \A t \in TablesOf(TheStatement) :
            \/ UnknownInBody(t)
            \/ ResolvesToVisibleCte(t, TheStatement)
            \/ FullyQualifiedAllowed(t) /\ ~HasMarker(t) )
    => /\ RejectedWith("Table is not in the allowed table list")
       /\ \E t \in TablesOf(TheStatement) :
             UnknownInBody(t) /\ result[1].error[1].arg = t.name
C4_Witness ==
    /\ RejectedWith("Table is not in the allowed table list")
    /\ NodesOf(TheStatement, {"CTE"}) # {}
    /\ \E t \in TablesOf(TheStatement) : UnknownInBody(t)
    /\ \E t \in TablesOf(TheStatement) : ResolvesToVisibleCte(t, TheStatement)

\* C5: under either policy mode a single statement is accepted only if its
\* root is a SELECT and no mutation-class node occurs anywhere in its tree;
\* otherwise it is rejected with the disallowed-statement error naming the
\* root's kind, or the kind of the first mutation-class node of the walk.
C5_SelectOnlyAtEveryLevel ==
    (Validated /\ ValidPolicy /\ SingleStatement) =>
        /\ IsAccepted => TheStatement.type = "Select" /\ NoMutationNode
        /\ TheStatement.type # "Select" =>
              RejectedNaming("Only SELECT statements are allowed. Got",
                             <<TheStatement.type>>)
        /\ (TheStatement.type = "Select" /\ ~NoMutationNode) =>
              /\ RejectedWith("Only SELECT statements are allowed. Found disallowed")
              /\ \E i \in 1..Len(TheStatement.nodes) :
                    /\ TheStatement.nodes[i].type \in MutationTypes
                    /\ \A j \in 1..(i - 1) :
                          TheStatement.nodes[j].type \notin MutationTypes
                    /\ result[1].error[1].arg = <<TheStatement.nodes[i].type>>
C5_Witness ==
    /\ RejectedWith("Only SELECT statements are allowed. Found disallowed")
    /\ policy_mode = "flex"
    /\ \E n \in NodesOf(TheStatement, MutationTypes) : n.scope > 0

\* C6: a text of two or more non-empty statements is rejected with the
\* multi-statement error; empty statements are not counted, so one statement
\* with empty ones around it is not rejected for this reason; a text of no
\* statement is rejected.
C6_SingleStatementOnly ==
    (Validated /\ ValidPolicy /\ sql.parses) =>
        LET n == Cardinality(NonEmptyStatements)
        IN  /\ n >= 2 =>
                  RejectedNaming("Only single SQL statements are allowed", str_of_int(n))
            /\ n = 1 => ~RejectedWith("Only single SQL statements are allowed")
            /\ n = 0 => ~IsAccepted /\ pc = "done"
C6_Witness ==
    /\ RejectedWith("Only single SQL statements are allowed")
    /\ Cardinality(NonEmptyStatements) = 2
    /\ Len(sql.statements) = 2

\* A call whose name is a blocklist entry up to case and punctuation, or the
\* typed ML.PREDICT node
BlockedCall(f) ==
    \/ /\ f.type = "Anonymous"
       /\ \E b \in _BLOCKED_FUNCTIONS : SameUpToCaseAndPunctuation(f.name, b)
    \/ f.type = "Predict"
\* C7: a structurally valid single SELECT holding a call to a blocked
\* function anywhere in its tree is rejected with the blocked-function error
\* in strict and in flex mode, with or without table references, also when
\* a table reference breaks a scope rule.
C7_BlockedFunctionAlwaysRejected ==
    ( /\ Validated /\ ValidPolicy /\ SingleSelect /\ NoMutationNode
      /\ \E f \in NodesOf(TheStatement, FuncTypes) : BlockedCall(f) )
    => RejectedWith("Function is not allowed")
C7_Witness ==
    /\ RejectedWith("Function is not allowed")
    /\ policy_mode = "flex"
    /\ \E f \in NodesOf(TheStatement, FuncTypes) : BlockedCall(f) /\ f.scope > 0
    /\ \E t \in TablesOf(TheStatement) : ProjectMismatch(t)

\* C8: a call name that differs from a blocklist entry only in letter case,
\* surrounding whitespace, dots, underscores and spaces normalizes to the
\* entry's token, and a structurally valid SELECT calling it is rejected
\* with the blocked-function error.
C8_BlocklistSpellingInsensitive ==
    (Validated /\ ValidPolicy /\ SingleSelect /\ NoMutationNode) =>
        \A f \in NodesOf(TheStatement, {"Anonymous"}) :
            /\ \A b \in _BLOCKED_FUNCTIONS :
                  SameUpToCaseAndPunctuation(f.name, b) =>
                      /\ _normalize_function_token(f.name) = _normalize_function_token(b)
                      /\ RejectedWith("Function is not allowed")
            /\ \A g \in NodesOf(TheStatement, {"Anonymous"}) :
                  SameUpToCaseAndPunctuation(f.name, g.name) =>
                      _normalize_function_token(f.name) = _normalize_function_token(g.name)
C8_Witness ==
    /\ RejectedWith("Function is not allowed")
    /\ \E f \in NodesOf(TheStatement, {"Anonymous"}) :
          /\ SameUpToCaseAndPunctuation(f.name, s_ml_detect_anomalies)
          /\ f.name # s_ml_detect_anomalies

\* The checked references naming INFORMATION_SCHEMA, by position
MarkerRefs == { i \in 1..Len(TableSeq) : ~Exempted(TableSeq[i]) /\ HasMarker(TableSeq[i]) }
C9_Applies ==
    /\ Validated /\ ValidPolicy /\ SingleSelect /\ NoMutationNode
    /\ FunctionPolicyPasses
    /\ MarkerRefs # {}
\* C9 (as claimed): a query that passes the structural and function checks
\* and has a table reference, not skipped as a CTE reference, whose name or
\* dataset holds INFORMATION_SCHEMA in any letter case is rejected with the
\* metadata-access error in both modes.
C9_MetadataAlwaysMetadataError ==
    C9_Applies => RejectedWith("INFORMATION_SCHEMA queries are not allowed")
\* C9 (amended): such a query is rejected in both modes; the error is the
\* metadata-access error unless a reference earlier in traversal order, not
\* skipped as a CTE reference, breaks a scope rule.
C9_MetadataRejected ==
    C9_Applies =>
        /\ pc = "done" /\ ~IsAccepted
        /\ (\A j \in 1..(First(MarkerRefs) - 1) :
                Exempted(TableSeq[j]) \/ ~BreaksScopeRule(TableSeq[j]))
            => RejectedWith("INFORMATION_SCHEMA queries are not allowed")
C9_Witness ==
    /\ C9_Applies
    /\ RejectedWith("INFORMATION_SCHEMA queries are not allowed")
    /\ First(MarkerRefs) > 1
    /\ \E t \in TablesOf(TheStatement) :
          HasMarker(t) /\ ~str_contains(t.name, s_information_schema)
                       /\ ~str_contains(t.db, s_information_schema)

\* C10: in both modes a query with a table reference whose project
\* qualifier differs from the allowed project, or whose dataset qualifier
\* differs from the allowed dataset, is never accepted; qualifiers are
\* compared up to letter case; the scope-violation error names a differing
\* qualifier of the query; and the dataset error is raised for a reference
\* whose project does not differ.
C10_ScopeViolationNeverAccepted ==
    (Validated /\ ValidPolicy /\ SingleSelect) =>
        /\ IsAccepted =>
              \A t \in TablesOf(TheStatement) : ~ProjectMismatch(t) /\ ~DatasetMismatch(t)
        /\ RejectedWith("Query references project") =>
              \E t \in TablesOf(TheStatement) :
                  ProjectMismatch(t) /\ result[1].error[1].arg = t.catalog
        /\ RejectedWith("Query references dataset") =>
              \E t \in TablesOf(TheStatement) :
                  /\ DatasetMismatch(t) /\ result[1].error[1].arg = t.db
                  /\ ~ProjectMismatch(t)
        /\ ( /\ NoMutationNode /\ FunctionPolicyPasses
             /\ Len(TableSeq) >= 1
             /\ ProjectMismatch(TableSeq[1]) /\ DatasetMismatch(TableSeq[1])
             /\ ~HasMarker(TableSeq[1]) )
           => RejectedNaming("Query references project", TableSeq[1].catalog)
C10_Witness ==
    /\ RejectedWith("Query references project")
    /\ policy_mode = "flex"
    /\ ProjectMismatch(TableSeq[1]) /\ DatasetMismatch(TableSeq[1])
    /\ \E t \in TablesOf(TheStatement) :
          t.catalog # <<>> /\ t.catalog # project_id /\ ~ProjectMismatch(t)

\* The reference lacks the project or the dataset qualifier
LacksQualifier(t) == t.catalog = <<>> \/ t.db = <<>>
\* An otherwise acceptable query with a real table reference that lacks a
\* qualifier: every reference is a reference to a visible CTE, or an allowed
\* fully qualified table, or lacks a qualifier while its present qualifier
\* matches; none names INFORMATION_SCHEMA.
C11_Applies ==
    /\ Validated /\ ValidPolicy /\ SingleSelect /\ NoMutationNode
    /\ FunctionPolicyPasses
    /\ \E t \in TablesOf(TheStatement) :
          LacksQualifier(t) /\ ~ResolvesToVisibleCte(t, TheStatement)
    /\ \A t \in TablesOf(TheStatement) :
          \/ ResolvesToVisibleCte(t, TheStatement)
          \/ /\ ~HasMarker(t) /\ ~ProjectMismatch(t) /\ ~DatasetMismatch(t)
             /\ LacksQualifier(t) \/ FullyQualifiedAllowed(t)
\* C11 (as claimed): a table reference that lacks the project or the
\* dataset qualifier and is not a CTE reference makes strict mode reject the
\* query with the unqualified-table error naming such a reference, while
\* flex mode accepts the same query when its present qualifiers match.
C11_UnqualifiedStrictRejectsFlexAccepts ==
    C11_Applies =>
        /\ policy_mode = "strict" =>
              /\ RejectedWith("Table must be fully qualified")
              /\ \E t \in TablesOf(TheStatement) :
                    LacksQualifier(t) /\ result[1].error[1].arg = t.name
        /\ policy_mode = "flex" => IsAccepted
        /\ validate_sql(sql, project_id, dataset_id, "flex", allowed_tables).ok

\* The query reads from CTEs only: every table reference (if any) is an
\* unqualified reference to a CTE visible where it stands
ReadsOnlyFromCtes ==
    \A t \in TablesOf(TheStatement) : ResolvesToVisibleCte(t, TheStatement)
\* C12: for a query that passes the structural and function checks and has
\* no table reference other than references to CTEs, strict mode rejects
\* with the no-table error (CTE references do not count as real tables) and
\* flex mode accepts the same query; the no-table error is raised in strict
\* mode only.
C12_NoTableRejectedInStrictOnly ==
    ( /\ Validated /\ ValidPolicy /\ SingleSelect /\ NoMutationNode
      /\ FunctionPolicyPasses )
    => /\ (ReadsOnlyFromCtes /\ policy_mode = "strict") =>
              RejectedWith("Query must reference at least one table in strict mode")
       /\ (ReadsOnlyFromCtes /\ policy_mode = "flex") => IsAccepted
       /\ ReadsOnlyFromCtes =>
              validate_sql(sql, project_id, dataset_id, "flex", allowed_tables).ok
       /\ RejectedWith("Query must reference at least one table in strict mode") =>
              policy_mode = "strict"
C12_Witness ==
    /\ RejectedWith("Query must reference at least one table in strict mode")
    /\ NodesOf(TheStatement, {"CTE"}) # {}
    /\ TablesOf(TheStatement) # {}
    /\ ReadsOnlyFromCtes

\* The positions of the row-limit clauses of the statement's own query block
OwnLimits(statement) ==
    { i \in 1..Len(statement.nodes) :
        statement.nodes[i].type = "Limit" /\ statement.nodes[i].scope = 0 }
\* C13 (as claimed): every returned SQL has a row limit on the statement's
\* own query block; when the input statement has none of its own, the
\* default limit is appended, whether or not a nested block has a limit.
C13_ReturnedStatementIsLimited ==
    IsAccepted =>
        /\ OwnLimits(ReturnedStatement) # {}
        /\ OwnLimits(TheStatement) = {} =>
              \E i \in OwnLimits(ReturnedStatement) :
                  ReturnedStatement.nodes[i].value = _DEFAULT_LIMIT

\* C14: when the input statement has a row limit of its own, the returned
\* statement is the input statement, with exactly one limit on its own block
\* and the caller's value, also a value above the default; validating the
\* returned SQL again returns it unchanged.
C14_ExplicitLimitPreserved ==
    (IsAccepted /\ OwnLimits(TheStatement) # {}) =>
        /\ ReturnedStatement = TheStatement
        /\ Cardinality(OwnLimits(ReturnedStatement)) = 1
        /\ \A i \in OwnLimits(ReturnedStatement) :
              \E j \in OwnLimits(TheStatement) :
                  ReturnedStatement.nodes[i].value = TheStatement.nodes[j].value
        /\ validate_sql(cleaned_sql[1], project_id, dataset_id, policy_mode, allowed_tables)
              = Accepted(cleaned_sql[1])
C14_Witness ==
    /\ IsAccepted
    /\ policy_mode = "strict"
    /\ \E i \in OwnLimits(TheStatement) : TheStatement.nodes[i].value > _DEFAULT_LIMIT
    /\ \E i \in OwnLimits(ReturnedStatement) : ReturnedStatement.nodes[i].value > _DEFAULT_LIMIT
    /\ \E n \in NodesOf(TheStatement, {"Limit"}) : n.scope > 0

\* The allowlist string yields no name: it holds commas and blanks only
YieldsNoName(a) == \A i \in 1..Len(a) : a[i] \in Whitespace \cup {","}
\* Settings have been constructed, or the construction has failed
Loaded == env # None /\ settings # None
\* Startup has failed and nothing was evaluated: no tool, no validation, no
\* query, no result
FailedAtConfiguration ==
    /\ ~settings[1].ok
    /\ pc = "failed"
    /\ policy_mode = "" /\ allowed_tables = None
    /\ cleaned_sql = None /\ clients = 0 /\ issued = <<>> /\ result = None
RetrievalSizesValid ==
    /\ env[1].retrieval_final_k > 0
    /\ env[1].retrieval_candidate_k >= env[1].retrieval_final_k
\* C15: constructing the settings with mode strict and an allowlist string
\* that yields no name fails at configuration time, whatever query waits
\* (with the empty-allowlist error when the other settings are valid); a
\* mode other than strict and flex fails too, with the mode error; flex with
\* such an allowlist is accepted (the other settings being valid) and gives
\* the tool an empty allowlist; and nothing is validated unless the
\* settings were constructed.
C15_StrictEmptyAllowlistFailsAtStartup ==
    /\ Loaded =>
          /\ ( /\ env[1].sql_policy_mode = "strict"
               /\ YieldsNoName(env[1].sql_allowed_tables) )
             => /\ FailedAtConfiguration
                /\ RetrievalSizesValid =>
                      settings[1].error = "sql_allowed_tables must not be empty when sql_policy_mode is 'strict'"
          /\ env[1].sql_policy_mode \notin {"strict", "flex"} =>
                FailedAtConfiguration /\ settings[1].error = "sql_policy_mode"
          /\ ( /\ env[1].sql_policy_mode = "flex"
               /\ YieldsNoName(env[1].sql_allowed_tables)
               /\ RetrievalSizesValid )
             => /\ settings[1].ok
                /\ pc # "failed"
                /\ policy_mode = "flex" /\ allowed_tables = Some({})
    /\ (env # None /\ pc \notin {"config", "failed"}) => Loaded /\ settings[1].ok
C15_Witness ==
    /\ Loaded
    /\ FailedAtConfiguration
    /\ env[1].sql_policy_mode = "strict"
    /\ env[1].sql_allowed_tables # <<>>
    /\ sql # Unparseable
    /\ settings[1].error = "sql_allowed_tables must not be empty when sql_policy_mode is 'strict'"

\* C16: validate_sql checks its policy arguments before the SQL: for every
\* text, parseable or not, a mode other than strict and flex is rejected
\* with the invalid-mode error, and strict mode with an empty or absent
\* allowlist with the empty-allowlist error; no other error and no SQL is
\* returned.
C16_PolicyCheckedBeforeSql ==
    Validated =>
        /\ policy_mode \notin {"strict", "flex"} =>
              /\ RejectedNaming("Unknown sql_policy_mode", <<>>)
              /\ ~IsAccepted
        /\ ( /\ policy_mode = "strict"
             /\ allowed_tables = None \/ allowed_tables[1] = {} )
           => /\ RejectedNaming("Strict mode requires a non-empty allowed_tables set", <<>>)
              /\ ~IsAccepted
C16_Witness ==
    /\ RejectedWith("Strict mode requires a non-empty allowed_tables set")
    /\ allowed_tables = Some({})
    /\ ~sql.parses

\* The place of each check in the order blocklist, metadata, project,
\* dataset, mode-specific table checks, by the message of its error
CheckOrder ==
    [ m \in { "Function is not allowed",
              "INFORMATION_SCHEMA queries are not allowed",
              "Query references project", "Query references dataset",
              "Table must be fully qualified",
              "Table is not in the allowed table list",
              "Query must reference at least one table in strict mode" } |->
        CASE m = "Function is not allowed" -> 1
          [] m = "INFORMATION_SCHEMA queries are not allowed" -> 2
          [] m = "Query references project" -> 3
          [] m = "Query references dataset" -> 4
          [] OTHER -> 5 ]
\* The places of the checks the reference t violates
ViolationsOf(t) ==
    (IF HasMarker(t) THEN {2} ELSE {})
    \cup (IF ProjectMismatch(t) THEN {3} ELSE {})
    \cup (IF DatasetMismatch(t) THEN {4} ELSE {})
    \cup (IF policy_mode = "strict"
             /\ (LacksQualifier(t) \/ str_lower(t.name) \notin AllowedNames)
          THEN {5} ELSE {})
\* The positions of the references that are checked (not skipped as CTE
\* references), and the places of all the checks the query violates
CheckedRefs == { i \in 1..Len(TableSeq) : ~Exempted(TableSeq[i]) }
ViolatingRefs == { i \in CheckedRefs : ViolationsOf(TableSeq[i]) # {} }
ViolationsOfQuery ==
    (IF FunctionPolicyPasses THEN {} ELSE {1})
    \cup UNION { ViolationsOf(TableSeq[i]) : i \in CheckedRefs }
    \cup (IF policy_mode = "strict" /\ CheckedRefs = {} THEN {5} ELSE {})
Least(places) == CHOOSE p \in places : \A q \in places : p <= q
C17_Applies == Validated /\ ValidPolicy /\ SingleSelect /\ NoMutationNode
ReportedPlace == CheckOrder[result[1].error[1].msg]
\* C17 (as claimed): when a query violates several checks, the error
\* reported is that of the violated check that comes first in the order
\* blocklist, metadata, project, dataset, mode-specific table checks,
\* wherever in the query the violations sit.
C17_FirstCheckInOrderReported ==
    (C17_Applies /\ ViolationsOfQuery # {}) =>
        /\ pc = "done" /\ ~IsAccepted
        /\ ReportedPlace = Least(ViolationsOfQuery)
\* C17 (amended): a blocked function is reported before any table error;
\* otherwise the error is that of the first table reference, in traversal
\* order, that violates a check, and on that reference the order metadata,
\* project, dataset, mode-specific checks decides; the no-table error comes
\* last.
C17_FirstViolatingReferenceReported ==
    (C17_Applies /\ ViolationsOfQuery # {}) =>
        /\ pc = "done" /\ ~IsAccepted
        /\ ReportedPlace =
              IF ~FunctionPolicyPasses THEN 1
              ELSE IF ViolatingRefs # {}
                   THEN Least(ViolationsOf(TableSeq[First(ViolatingRefs)]))
                   ELSE 5
        /\ (FunctionPolicyPasses /\ ViolatingRefs = {}) =>
              RejectedWith("Query must reference at least one table in strict mode")
C17_Witness ==
    /\ C17_Applies
    /\ policy_mode = "strict"
    /\ RejectedWith("Query references project")
    /\ Len(TableSeq) = 2
    /\ ViolationsOf(TableSeq[1]) = {3, 4, 5}
    /\ 2 \in ViolationsOf(TableSeq[2])

\* The errors of the table scope stage
TableScopeErrors ==
    { "INFORMATION_SCHEMA queries are not allowed", "Query references project",
      "Query references dataset", "Table must be fully qualified",
      "Table is not in the allowed table list",
      "Query must reference at least one table in strict mode" }
\* C18: the stages run in the order structural validation (parse, single
\* statement, top-level SELECT, nested mutation), function policy, table
\* scope, rewriting; the first stage an input fails decides the error,
\* whatever later stages it would fail too; SQL is returned only when no
\* stage fails, and it then carries the rewriter's row limit.
C18_FirstFailingStageDecides ==
    (Validated /\ ValidPolicy) =>
        IF ~sql.parses THEN RejectedWith("SQL parse error")
        ELSE IF Cardinality(NonEmptyStatements) # 1
        THEN RejectedWith("Only single SQL statements are allowed")
        ELSE IF TheStatement.type # "Select"
        THEN RejectedWith("Only SELECT statements are allowed. Got")
        ELSE IF ~NoMutationNode
        THEN RejectedWith("Only SELECT statements are allowed. Found disallowed")
        ELSE IF ~FunctionPolicyPasses
        THEN RejectedWith("Function is not allowed")
        ELSE IF ViolationsOfQuery # {}
        THEN /\ pc = "done" /\ ~IsAccepted
             /\ result[1].error[1].msg \in TableScopeErrors
        ELSE /\ IsAccepted
             /\ NodesOf(ReturnedStatement, {"Limit"}) # {}
             /\ ReturnedStatement \in
                    {TheStatement, with_limit(TheStatement, _DEFAULT_LIMIT)}
C18_Witness ==
    /\ RejectedWith("Only single SQL statements are allowed")
    /\ policy_mode = "strict"
    /\ \E i \in NonEmptyStatements : sql.statements[i][1].type \in MutationTypes
    /\ \E i \in NonEmptyStatements :
          /\ sql.statements[i][1].type = "Select"
          /\ \E n \in Range(sql.statements[i][1].nodes) : n.type = "Anonymous"

\* The tool has returned rows
ReturnedRows == result # None /\ result[1].ok
\* C19 (as claimed): whenever the tool returns ok=True, the JSON text of
\* the returned rows is at most _MAX_RESULT_BYTES long, for every number of
\* rows and every combination of row sizes.
C19_PayloadWithinBudget ==
    ReturnedRows => payload_len(result[1].data[1]) <= _MAX_RESULT_BYTES

\* Rows were received and some were dropped from the result
RowsDropped == ReturnedRows /\ Len(result[1].data[1]) < Len(rows)
\* The results the tool returns when it drops no row
CompleteResults ==
    { ToolResult(TRUE, None, Some(received)) :
        received \in { r \in RowSeqs : capped(r) = r } }
\* C20 (as claimed): a result from which rows were dropped is marked as
\* truncated: it differs from every result the tool returns when nothing is
\* dropped, so the caller can tell the two apart; a result with no row
\* dropped is one of the complete results.
C20_TruncationIsMarked ==
    /\ RowsDropped => result[1] \notin CompleteResults
    /\ (ReturnedRows /\ ~RowsDropped) => result[1] \in CompleteResults

-----------------------------------------------------------------------------
\* One invocation, one query

ExecutionFailed ==
    /\ result # None
    /\ ~result[1].ok
    /\ result[1].error[1].msg \in ExecutionErrors

\* C21: within one invocation of the tool at most one client is created and
\* at most one query is issued; when the query fails (cost ceiling, timeout,
\* transport) the invocation is over with that failure as its result, the
\* one query is the only one ever issued, and from then on nothing is issued.
C21_AtMostOneQueryNoRetry ==
    /\ clients <= 1
    /\ Len(issued) <= 1
    /\ Len(waited) <= Len(issued)
    /\ ExecutionFailed =>
          /\ pc = "done"
          /\ result[1] = ToolResult(FALSE, result[1].error, None)
          /\ ~ENABLED Next

C21_Witness ==
    /\ pc = "done"
    /\ Len(issued) = 1
    /\ Len(waited) = 1
    /\ result = Some(ToolResult(FALSE,
                     Some([msg |-> "bytes billed limit exceeded", arg |-> <<>>]), None))

-----------------------------------------------------------------------------
\* Failures are results, not exceptions

WellFormedResult(r) ==
    IF r.ok
    THEN r.error = None /\ r.data # None
    ELSE r.error # None /\ r.data = None

\* C22: an invocation that is over has returned a ToolResult, never raised:
\* ok=True comes with no error and with rows, ok=False with the failure
\* message and no data; no validation and no execution failure leaves the
\* tool as an exception.
C22_FailuresNeverEscape ==
    /\ pc # "raised"
    /\ pc = "done" => result # None /\ WellFormedResult(result[1])
    /\ result # None => pc = "done"

-----------------------------------------------------------------------------
\* validate_sql under concurrency

Alone(c) ==
    validate_sql(calls[c].args.sql, project_id, dataset_id,
                 calls[c].args.policy.mode, calls[c].args.policy.tables)

\* C23: under every interleaving of the stages of concurrent calls, a call
\* that has ended has ended with the outcome validate_sql gives for its
\* arguments alone, a call that has not ended has no outcome, and the
\* module-level blocklist tables are what they were at import.
C23_ConcurrentCallsArePure ==
    /\ module = Module
    /\ \A c \in Callers :
          IF calls[c].stage = "returned"
          THEN calls[c].outcome = Some(Alone(c))
          ELSE calls[c].outcome = None

C23_Witness ==
    /\ calls[1].args.sql # calls[2].args.sql
    /\ calls[1].args.policy # calls[2].args.policy
    /\ calls[1].stage = "returned"
    /\ calls[1].outcome[1].msg = "Function is not allowed"
    /\ calls[2].stage = "tables"
    /\ \E i \in 1..Len(calls[2].args.sql.statements[1][1].nodes) :
            calls[2].args.sql.statements[1][1].nodes[i].type \in FuncTypes

-----------------------------------------------------------------------------
\* The rate limiter

KeyOf(e) == <<IF e.client # None THEN e.client[1] ELSE "unknown", e.path>>

Limited(e) == e.path \in DOMAIN rules

\* The requests of the key of request i that were forwarded before it and
\* arrived within the window that ends at its arrival
InWindowBefore(i) ==
    { j \in 1..(i - 1) :
        /\ KeyOf(log[j]) = KeyOf(log[i])
        /\ log[j].status = "forwarded"
        /\ log[j].at > log[i].at - window_seconds }

\* The forwarded requests of a key that arrived within the last window
InWindowNow(key) ==
    { j \in 1..Len(log) :
        /\ KeyOf(log[j]) = key
        /\ log[j].status = "forwarded"
        /\ log[j].at > now - window_seconds }

\* C24: for every key and at every moment at most limit forwarded requests
\* of the key arrived within the last window_seconds; and a request that
\* arrives while limit (or more) forwarded requests of its key are inside
\* the window is answered 429 with a Retry-After and is not forwarded.
C24_WindowBoundAnd429 ==
    /\ \A i \in 1..Len(log) :
          Limited(log[i]) =>
              Cardinality(InWindowNow(KeyOf(log[i]))) <= rules[log[i].path]
    /\ \A i \in 1..Len(log) :
          (Limited(log[i]) /\ Cardinality(InWindowBefore(i)) >= rules[log[i].path])
              => log[i].status = "429" /\ log[i].retry_after # None

LimitedKeys == { KeyOf(log[i]) : i \in { j \in 1..Len(log) : Limited(log[j]) } }

\* The arrival times of the forwarded requests of a key, in order
ForwardedTimes(key) ==
    LET sel == SelectSeq(log, LAMBDA e : KeyOf(e) = key /\ e.status = "forwarded")
    IN  [j \in 1..Len(sel) |-> sel[j].at]

\* The arrival time of the last request of a key
LastArrival(key) ==
    LET of_key == { j \in 1..Len(log) : KeyOf(log[j]) = key }
    IN  log[CHOOSE j \in of_key : \A k \in of_key : k <= j].at

\* C25: a request whose path equals no rule path (a sub-path of one
\* included) is forwarded, and no hit is kept for its key; the answer to a
\* request of a limited path is decided by the forwarded requests of its
\* own key inside its window, whatever the other keys have done; and the
\* hits kept for a key are the arrival times of its forwarded requests
\* (those still inside the window of its last request), so a request
\* answered with 429 has added none.
C25_LimiterIsolation ==
    /\ \A i \in 1..Len(log) : ~Limited(log[i]) => log[i].status = "forwarded"
    /\ DOMAIN hits = LimitedKeys
    /\ \A i \in 1..Len(log) :
          Limited(log[i]) =>
              log[i].status =
                  IF Cardinality(InWindowBefore(i)) < rules[log[i].path]
                  THEN "forwarded"
                  ELSE IF InWindowBefore(i) = {} THEN "IndexError" ELSE "429"
    /\ \A key \in DOMAIN hits :
          hits[key] = SelectSeq(ForwardedTimes(key),
                                LAMBDA t : t > LastArrival(key) - window_seconds)

C25_Witness ==
    /\ Len(log) = 3
    /\ log[1].path = p_upload /\ log[1].status = "forwarded"
    /\ log[2].path = p_upload /\ log[2].status = "429"
    /\ log[3].path = p_upload /\ log[3].status = "forwarded"
    /\ log[1].client = log[2].client
    /\ log[3].client # log[1].client
    /\ log[3].at = log[1].at
    /\ Len(hits[KeyOf(log[1])]) = 1

-----------------------------------------------------------------------------
\* The CTE exemption

\* The reference has no qualifier and its name is, up to letter case, an
\* alias bound by the WITH clause of the statement's own block
RefersToOwnCte(t) ==
    /\ t.catalog = <<>>
    /\ t.db = <<>>
    /\ \E cte \in NodesOf(TheStatement, {"CTE"}) :
          cte.scope = 0 /\ str_lower(cte.alias) = str_lower(t.name)

\* The reference passes every table check of the mode
PassesTableChecks(t) ==
    /\ ~HasMarker(t)
    /\ ~ProjectMismatch(t)
    /\ ~DatasetMismatch(t)
    /\ policy_mode = "strict" => FullyQualifiedAllowed(t)

\* C26: the references exempted from the table checks are exactly the
\* unqualified ones named like an alias bound directly under the statement:
\* a query that passes the earlier stages is accepted if and only if every
\* other reference (a qualified one named like an alias, one named like an
\* alias of a nested WITH clause only) passes all table checks and, in
\* strict mode, there is such a reference.
C26_ExemptIffOwnCteAlias ==
    ( /\ Validated /\ ValidPolicy /\ SingleSelect /\ NoMutationNode
      /\ FunctionPolicyPasses )
    => LET real == { t \in TablesOf(TheStatement) : ~RefersToOwnCte(t) }
       IN  IsAccepted <=>
               /\ \A t \in real : PassesTableChecks(t)
               /\ policy_mode = "strict" => real # {}

-----------------------------------------------------------------------------
\* Truncation keeps a prefix

\* C27: the rows returned are the first rows received, in their order and
\* as received; when the JSON text of all received rows is within the
\* budget all of them are returned; received rows never end in a failure
\* because of their size, and when the first row alone is larger than the
\* budget the result is ok=True with no row.
C27_TruncationKeepsPrefix ==
    /\ rows # <<>> => ReturnedRows
    /\ ReturnedRows =>
          LET data == result[1].data[1]
          IN  /\ Len(data) <= Len(rows)
              /\ data = SubSeq(rows, 1, Len(data))
              /\ payload_len(rows) <= _MAX_RESULT_BYTES => data = rows
              /\ (rows # <<>> /\ rows[1] > _MAX_RESULT_BYTES) => data = <<>>

C27_Witness ==
    /\ ReturnedRows
    /\ Len(rows) = 3
    /\ rows[1] > _MAX_RESULT_BYTES
    /\ rows[2] < _MAX_RESULT_BYTES
    /\ result[1] = ToolResult(TRUE, None, Some(<<>>))

-----------------------------------------------------------------------------
\* Resource limits of the execution

\* C28: every query issued carries the configured ceiling of bytes billed
\* in its job configuration, and every wait for a result has the finite
\* timeout; a query is waited for at most once, and rows are returned only
\* from a query with the ceiling, after a wait with the timeout.
C28_EveryQueryCappedAndTimed ==
    /\ \A i \in 1..Len(issued) : issued[i].maximum_bytes_billed = max_bytes_billed
    /\ \A i \in 1..Len(waited) : waited[i] = ResultTimeout /\ waited[i] \in 1..ResultTimeout
    /\ Len(waited) <= Len(issued)
    /\ pc = "wait" => Len(issued) = Len(waited) + 1
    /\ ReturnedRows => Len(issued) = 1 /\ Len(waited) = 1

C28_Witness ==
    /\ ReturnedRows
    /\ rows # <<>>
    /\ Len(issued) = 1
    /\ issued[1].maximum_bytes_billed = max_bytes_billed
    /\ waited = <<ResultTimeout>>

-----------------------------------------------------------------------------
\* Flex mode and the allowlist

\* Values of the allowed_tables argument, other than the allowlist {T, u}
AllowlistArgs == {None, Some({}), Some({<<"s">>})}

FlexOutcome(tables_arg) == validate_sql(sql, project_id, dataset_id, "flex", tables_arg)

\* The outcome of the invocation is the outcome v of validate_sql
OutcomeIs(v) ==
    IF v.ok THEN cleaned_sql = Some(v.sql)
    ELSE IF v.exception = "SQLValidationError"
    THEN /\ cleaned_sql = None
         /\ result = Some(ToolResult(FALSE, Some([msg |-> v.msg, arg |-> v.arg]), None))
    ELSE pc = "raised"

QualifiedToAllowed(t) ==
    /\ str_lower(t.catalog) = str_lower(project_id)
    /\ str_lower(t.db) = str_lower(dataset_id)

\* validate_sql has just ended in a flex-mode invocation
FlexCallEnded ==
    /\ policy_mode = "flex"
    /\ pc \in {"client", "raised"} \/ (pc = "done" /\ cleaned_sql = None)

\* The allowlist does not matter in flex mode: the call has the outcome
\* validate_sql has for every other value of allowed_tables
FlexIgnoresAllowlist ==
    FlexCallEnded => \A tables_arg \in AllowlistArgs : OutcomeIs(FlexOutcome(tables_arg))

\* A query that passes the earlier stages and whose references are all
\* qualified to the allowed project and dataset
OnlyQualifiedToAllowed ==
    /\ Validated /\ policy_mode = "flex" /\ SingleSelect /\ NoMutationNode
    /\ FunctionPolicyPasses
    /\ \A t \in TablesOf(TheStatement) : QualifiedToAllowed(t)

\* C29 (as claimed): in flex mode the outcome of validate_sql is the same
\* for every value of allowed_tables, empty and None included, and a query
\* whose references are qualified to the allowed project and dataset is
\* accepted whatever the names of its tables are.
C29_FlexAcceptsAnyQualifiedName ==
    /\ FlexIgnoresAllowlist
    /\ OnlyQualifiedToAllowed => IsAccepted

\* C29 (amended): in flex mode the outcome of validate_sql is the same for
\* every value of allowed_tables, empty and None included, and a query
\* whose references are qualified to the allowed project and dataset is
\* accepted whatever the names of its tables are, unless a name contains
\* INFORMATION_SCHEMA: then it is rejected with the metadata error.
C29_FlexOutcomeIgnoresAllowlist ==
    /\ FlexCallEnded =>
          \A tables_arg \in AllowlistArgs : OutcomeIs(FlexOutcome(tables_arg))
    /\ OnlyQualifiedToAllowed =>
          IF \A t \in TablesOf(TheStatement) : ~HasMarker(t)
          THEN IsAccepted
          ELSE RejectedWith("INFORMATION_SCHEMA queries are not allowed")

C29_Witness ==
    /\ OnlyQualifiedToAllowed
    /\ IsAccepted
    /\ allowed_tables = Some(AllowedTables)
    /\ \E t \in TablesOf(TheStatement) : str_lower(t.name) \notin AllowedNames

-----------------------------------------------------------------------------
\* What the function policy rejects

\* The names a call may go by: the literal call name of an anonymous call,
\* the dialect's name of the node type, the node's type tag
CandidateNames(f) ==
    (IF f.type = "Anonymous" THEN {f.name} ELSE {})
    \cup {f.sql_name, f.class_name}

NormalizedBlocklist == { _normalize_function_token(b) : b \in _BLOCKED_FUNCTIONS }

\* The normalized parts after the first dot of the dotted blocklist entries
NormalizedBasenames ==
    { _normalize_function_token(str_after_first_dot(b)) :
        b \in { d \in _BLOCKED_FUNCTIONS : "." \in Range(d) } }

NamedIn(f, names) ==
    \E candidate \in CandidateNames(f) : _normalize_function_token(candidate) \in names

\* C30 (as claimed): a query is rejected with the blocked-function error
\* only if it holds a call one of whose candidate names normalizes to a
\* member of the normalized blocklist.
C30_RejectedOnlyIfInBlocklist ==
    RejectedWith("Function is not allowed") =>
        \E f \in NodesOf(TheStatement, FuncTypes) : NamedIn(f, NormalizedBlocklist)

\* C30 (amended): a query is rejected with the blocked-function error only
\* if it holds a call one of whose candidate names normalizes to a member
\* of the normalized blocklist or to the normalized part after the dot of a
\* dotted blocklist entry (predict, forecast, ...); the name reported is
\* then the candidate in upper case, or the dotted entry in upper case.
C30_RejectedOnlyIfInBlocklistOrBasename ==
    RejectedWith("Function is not allowed") =>
        /\ \E f \in NodesOf(TheStatement, FuncTypes) :
              NamedIn(f, NormalizedBlocklist \cup NormalizedBasenames)
        /\ \/ _normalize_function_token(result[1].error[1].arg) \in NormalizedBlocklist
           \/ \E b \in _BLOCKED_FUNCTIONS : result[1].error[1].arg = str_upper(b)

C30_Witness ==
    /\ RejectedWith("Function is not allowed")
    /\ \A f \in NodesOf(TheStatement, FuncTypes) : ~NamedIn(f, NormalizedBlocklist)
    /\ \E f \in NodesOf(TheStatement, FuncTypes) : f.type = "Anonymous" /\ f.name = s_forecast
    /\ result[1].error[1].arg = str_upper(s_ml_forecast)
====
